---- MODULE Spec2Model ----
(***************************************************************************)
(* A model of the streaming JSON tokenizer of pitr/jsontokenizer           *)
(* (src/tokenizer.go).  Bytes are one-character strings, the buffer is a   *)
(* sequence of `size' bytes indexed from 1 (Go's buf[i] is buf[i+1] here), *)
(* and bufp/bufe keep Go's zero-based offsets.                             *)
(***************************************************************************)
EXTENDS Integers, Sequences, FiniteSets, TLC

(***************************************************************************)
(* Bounds of the model.                                                    *)
(***************************************************************************)
\* longest input drawn from the byte alphabet
MaxLen == 3
\* largest buffer size passed to NewWithSize
MaxSize == 3
\* the source may end a read early at any of the offsets 1..MaxCut
MaxCut == 1
\* longest run of the words null, true, false
MaxWords == 2
\* a sink that fails does so at one of its first MaxOk + 1 writes
MaxOk == 1

(***************************************************************************)
(* Small helpers.                                                          *)
(***************************************************************************)
Min(S) == CHOOSE x \in S : \A y \in S : x <= y

\* Go's b[lo:hi] of a sequence indexed from 1
Slice(b, lo, hi) == SubSeq(b, lo + 1, hi)

\* the value of a byte of a freshly made buffer
NUL == "NUL"

(***************************************************************************)
(* TokType and the lookup tables.                                          *)
(***************************************************************************)
TokNull == 0
TokTrue == 1
TokFalse == 2
TokNumber == 3
TokString == 4
TokArrayOpen == 5
TokArrayClose == 6
TokObjectOpen == 7
TokObjectClose == 8
TokObjectColon == 9
TokComma == 10

bnull == <<"n", "u", "l", "l">>
btrue == <<"t", "r", "u", "e">>
bfalse == <<"f", "a", "l", "s", "e">>

\* lookup with the tab left out of the whitespace bytes
lookupNoTab(c) ==
  IF c \in {"\n", "\r", " "} THEN "s"
  ELSE IF c \in {"+", "-", ".", "0", "1", "2", "3", "4", "5", "6", "7", "8",
                 "9", "E", "e"} THEN "#"
  ELSE NUL

\* lookup with '.' left out of the number bytes
lookupNoDot(c) ==
  IF c \in {"\t", "\n", "\r", " "} THEN "s"
  ELSE IF c \in {"+", "-", "0", "1", "2", "3", "4", "5", "6", "7", "8",
                 "9", "E", "e"} THEN "#"
  ELSE NUL

\* lookup with the minus sign left out of the number bytes
lookupNoMinus(c) ==
  IF c \in {"\t", "\n", "\r", " "} THEN "s"
  ELSE IF c \in {"+", ".", "0", "1", "2", "3", "4", "5", "6", "7", "8",
                 "9", "E", "e"} THEN "#"
  ELSE NUL

lookup(c) ==
  IF c \in {"\t", "\n", "\r", " "} THEN "s"
  ELSE IF c \in {"+", "-", ".", "0", "1", "2", "3", "4", "5", "6", "7", "8",
                 "9", "E", "e"} THEN "#"
  ELSE NUL

\* toklookup with the plus sign, a number byte, taken for the start of a number
toklookupPlus(c) ==
  CASE c = "{" -> TokObjectOpen
    [] c = "}" -> TokObjectClose
    [] c = "[" -> TokArrayOpen
    [] c = "]" -> TokArrayClose
    [] c = ":" -> TokObjectColon
    [] c = "," -> TokComma
    [] c = "\"" -> TokString
    [] c \in {"+", "-", "0", "1", "2", "3", "4", "5", "6", "7", "8", "9"} -> TokNumber
    [] OTHER -> 0

toklookup(c) ==
  CASE c = "{" -> TokObjectOpen
    [] c = "}" -> TokObjectClose
    [] c = "[" -> TokArrayOpen
    [] c = "]" -> TokArrayClose
    [] c = ":" -> TokObjectColon
    [] c = "," -> TokComma
    [] c = "\"" -> TokString
    [] c \in {"-", "0", "1", "2", "3", "4", "5", "6", "7", "8", "9"} -> TokNumber
    [] OTHER -> 0

(***************************************************************************)
(* Errors.  kind is "nil" (no error), "EOF" (io.EOF), "invalid"            *)
(* (invalid json %q, text = the buffered bytes), "mismatch" (expected w    *)
(* got c at index idx), "mismatchEOF" (expected w got EOF) or "panic" (a   *)
(* Go run-time panic: slice bounds out of range), "read" (an error of the   *)
(* source other than io.EOF) or "write" (an error of the sink).            *)
(***************************************************************************)
MkErr(kind, w, got, idx, text) ==
  [kind |-> kind, w |-> w, got |-> got, idx |-> idx, text |-> text]

NoErr == MkErr("nil", <<>>, "", -1, <<>>)
EOF == MkErr("EOF", <<>>, "", -1, <<>>)
Panic == MkErr("panic", <<>>, "", -1, <<>>)
ReadErr == MkErr("read", <<>>, "", -1, <<>>)
WriteErr == MkErr("write", <<>>, "", -1, <<>>)

(***************************************************************************)
(* The byte source (io.Reader).  data is the whole stream, pos the number  *)
(* of bytes already delivered, cuts the offsets at which a read stops      *)
(* early, eofWithData whether the last bytes come together with io.EOF,    *)
(* hitEOF whether a read has returned io.EOF.  failAt is the offset at     *)
(* which one read fails with an error other than io.EOF (-1: none does),   *)
(* failWithData whether that read is the one that delivers the bytes up    *)
(* to failAt or the one after it, which delivers none, and fired whether   *)
(* it has been made.  reads counts the reads, and failed tells whether     *)
(* one failed, since the caller's call began.                              *)
(***************************************************************************)
Read(s, max) ==
  LET len == Len(s.data)
      stop == Min({c \in s.cuts \cup {s.failAt} : c > s.pos} \cup {len})
      n == IF stop - s.pos < max THEN stop - s.pos ELSE max
      fails == ~s.fired /\ s.failWithData /\ s.pos + n = s.failAt
      ends == s.eofWithData /\ s.pos + n = len
  IN IF ~s.fired /\ s.pos = s.failAt
       THEN [n |-> 0, bytes |-> <<>>, err |-> ReadErr,
             s |-> [s EXCEPT !.fired = TRUE, !.failed = TRUE,
                             !.reads = @ + 1]]
       ELSE IF s.pos >= len
         THEN [n |-> 0, bytes |-> <<>>, err |-> EOF,
               s |-> [s EXCEPT !.hitEOF = TRUE, !.reads = @ + 1]]
         ELSE [n |-> n,
               bytes |-> SubSeq(s.data, s.pos + 1, s.pos + n),
               err |-> IF fails THEN ReadErr ELSE IF ends THEN EOF ELSE NoErr,
               s |-> [s EXCEPT !.pos = s.pos + n,
                               !.hitEOF = ~fails /\ ends,
                               !.fired = @ \/ fails,
                               !.failed = @ \/ fails,
                               !.reads = @ + 1]]

\* the source as a call of the caller finds it
Called(s) == [s EXCEPT !.reads = 0, !.failed = FALSE]

(***************************************************************************)
(* The output sink (io.Writer).  bytes is what it has accepted, ok the     *)
(* number of writes it still accepts in full (-1: every one), short the    *)
(* number of bytes it accepts of the write that fails, failed whether a    *)
(* write has failed, late the number of writes made after that one, and    *)
(* clock the number of reads the source had served when the sink was last  *)
(* written to.                                                             *)
(***************************************************************************)
NewWriter(ok, short) ==
  [bytes |-> <<>>, ok |-> ok, short |-> short, failed |-> FALSE, late |-> 0,
   clock |-> 0]

\* a sink that takes every byte it is given (bytes.Buffer)
Buffer == NewWriter(-1, 0)

Write(into, p) ==
  IF into.failed
    THEN [into |-> [into EXCEPT !.late = @ + 1], z |-> 0, err |-> WriteErr]
    ELSE IF into.ok = 0
      THEN [into |-> [into EXCEPT
                        !.bytes = @ \o SubSeq(p, 1, Min({into.short, Len(p)})),
                        !.failed = TRUE],
            z |-> Min({into.short, Len(p)}),
            err |-> WriteErr]
      ELSE [into |-> [into EXCEPT !.bytes = @ \o p,
                                  !.ok = IF @ > 0 THEN @ - 1 ELSE @],
            z |-> Len(p),
            err |-> NoErr]

\* the sink at the moment the scanner reading s writes to it
Seen(into, s) == [into EXCEPT !.clock = s.reads]

(***************************************************************************)
(* The tokenizer.                                                          *)
(***************************************************************************)
NewWithSize(size) ==
  [buf |-> [i \in 1..size |-> NUL], bufp |-> 0, bufe |-> 0]

\* refilled that takes the whole buffer for filled
refilledWhole(t, r) ==
  [t |-> [buf |-> [i \in 1..Len(t.buf) |->
                    IF i <= r.n THEN r.bytes[i] ELSE t.buf[i]],
          bufp |-> 0,
          bufe |-> Len(t.buf)],
   s |-> r.s,
   err |-> r.err]

\* refill, once the source has answered the read with r
refilled(t, r) ==
  [t |-> [buf |-> [i \in 1..Len(t.buf) |->
                    IF i <= r.n THEN r.bytes[i] ELSE t.buf[i]],
          bufp |-> 0,
          bufe |-> r.n],
   s |-> r.s,
   err |-> r.err]

refill(t, s) == refilled(t, Read(s, Len(t.buf)))

RECURSIVE peekLoop(_, _, _)
\* peek's loop goes round again after the refill that returned r
peekAgain(r) == peekLoop(r.t, r.s, r.err)

peekLoop(t, s, err) ==
  LET sig == {i \in t.bufp..(t.bufe - 1) : lookup(t.buf[i + 1]) # "s"}
  IN IF sig # {}
       THEN [t |-> [t EXCEPT !.bufp = Min(sig)], s |-> s,
             c |-> t.buf[Min(sig) + 1], err |-> NoErr]
       ELSE IF err.kind # "nil"
         THEN [t |-> t, s |-> s, c |-> NUL, err |-> err]
         ELSE peekAgain(refill(t, s))

peek(t, s) == peekLoop(t, s, NoErr)

RECURSIVE readWordLoop(_, _, _, _)
\* readWordStep that counts the bytes of the word from one
readWordStepFromOne(r, w, i) ==
  IF r.err.kind # "nil"
    THEN [t |-> r.t, s |-> r.s,
          err |-> IF r.err.kind = "EOF"
                    THEN MkErr("mismatchEOF", w, "", -1, <<>>)
                    ELSE r.err]
    ELSE IF r.t.buf[r.t.bufp + 1] # w[i + 1]
      THEN [t |-> r.t, s |-> r.s,
            err |-> MkErr("mismatch", w, r.t.buf[r.t.bufp + 1], i + 1, <<>>)]
      ELSE readWordLoop([r.t EXCEPT !.bufp = @ + 1], r.s, w, i + 1)

\* the body of readWord's loop for index i, r being the scanner after the
\* refill an empty buffer asks for
readWordStep(r, w, i) ==
  IF r.err.kind # "nil"
    THEN [t |-> r.t, s |-> r.s,
          err |-> IF r.err.kind = "EOF"
                    THEN MkErr("mismatchEOF", w, "", -1, <<>>)
                    ELSE r.err]
    ELSE IF r.t.buf[r.t.bufp + 1] # w[i + 1]
      THEN [t |-> r.t, s |-> r.s,
            err |-> MkErr("mismatch", w, r.t.buf[r.t.bufp + 1], i, <<>>)]
      ELSE readWordLoop([r.t EXCEPT !.bufp = @ + 1], r.s, w, i + 1)

readWordLoop(t, s, w, i) ==
  IF i >= Len(w) THEN [t |-> t, s |-> s, err |-> NoErr]
  ELSE readWordStep(IF t.bufe = t.bufp THEN refill(t, s)
                    ELSE [t |-> t, s |-> s, err |-> NoErr], w, i)

\* readWord that takes the first byte, which peek has seen, as matched
readWordFromOne(t, s, w) == readWordLoop(t, s, w, 1)

readWord(t, s, w) == readWordLoop(t, s, w, 0)

\* consumed with the comma left out of the case list
consumedNoComma(tok) ==
  tok \in {TokObjectOpen, TokObjectClose, TokArrayOpen, TokArrayClose,
           TokObjectColon}

\* consumed with the first byte of a number among the tokens Token consumes
consumedAlsoDigit(tok) ==
  tok \in {TokObjectOpen, TokObjectClose, TokArrayOpen, TokArrayClose,
           TokObjectColon, TokComma, TokNumber}

\* consumed with the quote of a string among the tokens Token consumes
consumedAlsoQuote(tok) ==
  tok \in {TokObjectOpen, TokObjectClose, TokArrayOpen, TokArrayClose,
           TokObjectColon, TokComma, TokString}

\* the tokens Token consumes itself
consumed(tok) ==
  tok \in {TokObjectOpen, TokObjectClose, TokArrayOpen, TokArrayClose,
           TokObjectColon, TokComma}

\* the word that Token's switch expects after the byte c, and its token
wordOf(c) == CASE c = "t" -> btrue [] c = "f" -> bfalse [] OTHER -> bnull

wordTok(c) == CASE c = "t" -> TokTrue [] c = "f" -> TokFalse [] OTHER -> TokNull

\* Token's return of the token tok after readWord has returned r
tokenWord(r, tok) == [t |-> r.t, s |-> r.s, tok |-> tok, err |-> r.err]

\* Token, once peek has returned p
tokenAt(p) ==
  IF p.err.kind # "nil"
    THEN [t |-> p.t, s |-> p.s, tok |-> TokNull, err |-> p.err]
    ELSE IF toklookup(p.c) = 0
      THEN IF p.c \in {"t", "f", "n"}
             THEN tokenWord(readWord(p.t, p.s, wordOf(p.c)), wordTok(p.c))
             ELSE [t |-> p.t, s |-> p.s, tok |-> TokNull,
                   err |-> MkErr("invalid", <<>>, "", -1,
                                 Slice(p.t.buf, p.t.bufp, p.t.bufe))]
      ELSE IF consumed(toklookup(p.c))
        THEN [t |-> [p.t EXCEPT !.bufp = @ + 1], s |-> p.s,
              tok |-> toklookup(p.c), err |-> NoErr]
        ELSE [t |-> p.t, s |-> p.s, tok |-> toklookup(p.c), err |-> NoErr]

Token(t, s) == tokenAt(peek(t, s))

\* flushed that passes the source's io.EOF on to the caller
flushedStrict(t, s, n, w, r) ==
  IF w.err.kind # "nil"
    THEN [t |-> t, s |-> s, into |-> w.into, n |-> n + w.z, err |-> w.err]
    ELSE [t |-> r.t, s |-> r.s, into |-> w.into, n |-> n + w.z, err |-> r.err]

\* flushed that looks at the sink's error after the refill
flushedLate(t, s, n, w, r) ==
  [t |-> r.t, s |-> r.s, into |-> w.into, n |-> n + w.z,
   err |-> IF w.err.kind # "nil" THEN w.err
           ELSE IF r.err.kind = "EOF" THEN NoErr ELSE r.err]

\* ReadNumber and ReadString after the buffered bytes went to the sink, which
\* returned w, and the buffer was refilled, which returned r: done unless
\* both went well
flushed(t, s, n, w, r) ==
  IF w.err.kind # "nil"
    THEN [t |-> t, s |-> s, into |-> w.into, n |-> n + w.z, err |-> w.err]
    ELSE [t |-> r.t, s |-> r.s, into |-> w.into, n |-> n + w.z,
          err |-> IF r.err.kind = "EOF" THEN NoErr ELSE r.err]

more(w, r) == w.err.kind = "nil" /\ r.err.kind = "nil"

RECURSIVE ReadNumberLoop(_, _, _, _)
\* ReadNumber's loop after a buffer without a stop byte
ReadNumberMore(t, s, n, w, r) ==
  IF more(w, r) THEN ReadNumberLoop(r.t, r.s, w.into, n + w.z)
  ELSE flushed(t, s, n, w, r)

ReadNumberLoop(t, s, into, n) ==
  LET stop == {i \in t.bufp..(t.bufe - 1) : lookup(t.buf[i + 1]) # "#"}
  IN IF stop # {}
       THEN LET i == Min(stop)
                w == Write(Seen(into, s), Slice(t.buf, t.bufp, i))
            IN IF w.err.kind # "nil"
                 THEN [t |-> t, s |-> s, into |-> w.into, n |-> n + w.z,
                       err |-> w.err]
                 ELSE [t |-> [t EXCEPT !.bufp = i], s |-> s, into |-> w.into,
                       n |-> n + w.z, err |-> NoErr]
       ELSE IF t.bufp > t.bufe
         THEN [t |-> t, s |-> s, into |-> into, n |-> n, err |-> Panic]
         ELSE ReadNumberMore(t, s, n,
                             Write(Seen(into, s), Slice(t.buf, t.bufp, t.bufe)),
                             refill(t, s))

ReadNumber(t, s, into) == ReadNumberLoop(t, s, into, 0)

\* closes that takes every quote for the closing one
closesAnyQuote(c, prev) == c = "\""

\* the byte c, read after the byte prev, ends the string
closes(c, prev) == c = "\"" /\ prev # "\\"

\* carry that forgets the last byte at every refill
carryNothing(t, prev) == NUL

\* prev after the scan of the buffered bytes found no closing quote
carry(t, prev) == IF t.bufe > t.bufp THEN t.buf[t.bufe] ELSE prev

RECURSIVE ReadStringLoop(_, _, _, _, _)
\* ReadString's loop after a buffer without a closing quote
ReadStringMore(t, s, n, w, r, prev) ==
  IF more(w, r) THEN ReadStringLoop(r.t, r.s, w.into, n + w.z, prev)
  ELSE flushed(t, s, n, w, r)

ReadStringLoop(t, s, into, n, prev) ==
  LET before(i) == IF i = 0 THEN prev ELSE t.buf[t.bufp + i]
      close == {i \in 0..(t.bufe - t.bufp - 1) :
                  closes(t.buf[t.bufp + i + 1], before(i))}
  IN IF t.bufp > t.bufe
       THEN [t |-> t, s |-> s, into |-> into, n |-> n, err |-> Panic]
       ELSE IF close # {}
         THEN LET i == Min(close)
                  w == Write(Seen(into, s), Slice(t.buf, t.bufp, t.bufp + i))
              IN [t |-> [t EXCEPT !.bufp = @ + i + 1], s |-> s,
                  into |-> w.into, n |-> n + w.z, err |-> w.err]
         ELSE ReadStringMore(t, s, n,
                             Write(Seen(into, s), Slice(t.buf, t.bufp, t.bufe)),
                             refill(t, s), carry(t, prev))

ReadString(t, s, into) ==
  ReadStringLoop([t EXCEPT !.bufp = @ + 1], s, into, 0, NUL)

\* Reset that rewinds the read cursor only
ResetKeepEnd(t, s2) == [t |-> [t EXCEPT !.bufp = 0], s |-> s2]

Reset(t, s2) == [t |-> [t EXCEPT !.bufp = 0, !.bufe = 0], s |-> s2]

(***************************************************************************)
(* The state: one scanner `tk' of buffer size `size' reading from `src',   *)
(* driven by a caller that may call Token, ReadNumber, ReadString and      *)
(* Reset in any order.  The remaining variables record what the caller     *)
(* has observed.                                                           *)
(***************************************************************************)
VARIABLES
  tk,      \* the tokenizer: buf, bufp, bufe
  src,     \* the reader the tokenizer is bound to (t.in)
  size,    \* the size NewWithSize was called with
  last,    \* the last call and what it returned
  drv,     \* the call the README's driver loop makes next, "stopped" or "off"
  toks,    \* token kinds the driver loop has got so far
  vals,    \* payloads the driver loop has got so far
  twin,    \* a freshly constructed scanner given the same calls since Reset
           \* (before any Reset: the scanner itself)
  rebound, \* "no", or the moment at which Reset was last called
  snk,     \* the sink the last call was given, as the call left it
  obeyed   \* whether every ReadNumber and ReadString call so far came right
           \* after Token returned Number or String

vars == <<tk, src, size, last, drv, toks, vals, twin, rebound, snk, obeyed>>

\* all sequences over A of length at most n
Seqs(A, n) == UNION {[1..k -> A] : k \in 0..n}

\* the byte soup the free caller is run on: whitespace, a number byte, the
\* quote and a byte that starts no token
Alphabet == {" ", "1", "\"", "x"}

Inputs == Seqs(Alphabet, MaxLen)

\* numbers: whitespace, a digit, the sign, a byte that continues a number but
\* does not start one, and a byte that ends a number
NumAlphabet == {" ", "1", "-", ".", ","}

NumInputs == Seqs(NumAlphabet, MaxLen)

\* strings: an opening quote followed by quotes, backslashes and other bytes
StrAlphabet == {"\"", "\\", "x", ","}

StrInputs == {<<"\"">> \o b : b \in Seqs(StrAlphabet, MaxLen)}

\* punctuation, balanced or not: every sequence of the six bytes shorter than
\* MaxLen, bare, with a space before each byte, or with a tab and a newline
\* after each
PunctAlphabet == {"{", "}", "[", "]", ":", ","}

RECURSIVE Spread(_, _, _)
Spread(b, before, after) ==
  IF b = <<>> THEN <<>>
  ELSE before \o <<Head(b)>> \o after \o Spread(Tail(b), before, after)

PunctInputs ==
  UNION {{b, Spread(b, <<" ">>, <<>>), Spread(b, <<>>, <<"\t", "\n">>)} :
           b \in Seqs(PunctAlphabet, MaxLen - 1)}

\* whitespace only
WsAlphabet == {"\t", "\n", "\r", " "}

WsInputs == Seqs(WsAlphabet, MaxLen)

\* the words null, true, false with whitespace before, between and after
Words == {bnull, btrue, bfalse}

Gaps == {<<" ">>, <<"\t", "\n", "\r">>}

RECURSIVE WordSeqs(_)
WordSeqs(k) ==
  IF k = 0 THEN {<<>>}
  ELSE {w \o g \o r : w \in Words, g \in Gaps, r \in WordSeqs(k - 1)}
       \cup {w \o g : w \in Words, g \in Gaps \cup {<<>>}}

WordInputs == {g \o r : g \in {<<>>, <<" ">>}, r \in WordSeqs(MaxWords)}

\* beginnings of words that go wrong
BadWordAlphabet == {"n", "u", "l", " "}

BadWordInputs == Seqs(BadWordAlphabet, MaxLen)

\* inputs of TestToken, TestToken_Bad and TestReadNumber_Limited
Fixtures ==
  { <<"{", "\"", "k", "1", "\"", ":", "\"", "v", "a", "l", "\"", ",",
      "\"", "k", "2", "\"", ":", "4", "2", "}">>,
    <<"{", "\"", "k", "1", "\"", ":", " ", "\"", "v", "a", "l", "\"", ",",
      "\"", "k", "2", "\"", ":", "4", "2", "}">>,
    <<" ", "-", "1", "2", "2", " ", " ", "1", "1", "E", "+", "4">>,
    <<"[", "1", ",", "\"", "2", "\"", "]">>,
    <<"\"", "1", "\\", "\"", "4", "\"">>,
    <<"1", "2", "3", "4", "5", "6", "7">>,
    <<"[", "}">>,
    <<"n", "i", "l">>,
    <<"h", "i">>,
    <<" ", "f", "a", "l", "l">>,
    <<" ", "f">> }

\* the bytes that continue a number but do not start one, first in the stream
\* or after a space, last or before a digit
BadLeadInputs ==
  {g \o <<c>> \o r : g \in {<<>>, <<" ">>}, c \in {"+", ".", "E", "e"},
                     r \in {<<>>, <<"1">>}}

DriverInputs ==
  Inputs \cup NumInputs \cup StrInputs \cup PunctInputs \cup WsInputs
    \cup WordInputs \cup BadWordInputs \cup BadLeadInputs \cup Fixtures

\* the buffer size of TestToken
TestSize == 7

Sizes == 1..MaxSize

DriverSizes == Sizes \cup {TestSize}

\* a source delivers what fits, or stops one read early at an offset up to MaxCut
CutSets(data) == {{}} \cup {{c} : c \in {d \in 1..MaxCut : d < Len(data)}}

EofModes == {FALSE}

\* a reader of which the read at offset failAt fails
NewFailingReader(data, cuts, mode, failAt, failWithData) ==
  [data |-> data, pos |-> 0, cuts |-> cuts, eofWithData |-> mode,
   hitEOF |-> FALSE, failAt |-> failAt, failWithData |-> failWithData,
   fired |-> FALSE, failed |-> FALSE, reads |-> 0]

NewReader(data, cuts, mode) == NewFailingReader(data, cuts, mode, -1, FALSE)

\* the readers Reset rebinds the scanner to
ResetInputs ==
  {<<>>, <<"1">>, <<"\"", "x">>, <<" ", ",">>, <<"n", "u", "l", "l">>}

\* offset in the stream of the byte the read cursor is on
Cursor(t, s) == s.pos - (t.bufe - t.bufp)

\* a call and what it returned, with what held when it was made: start, the
\* offset of the read cursor; after, the token the preceding call returned; and
\* drained, whether the source had ended and nothing buffered was unread
Call(op, tok, err, n, out, start, after, drained) ==
  [op |-> op, tok |-> tok, err |-> err, n |-> n, out |-> out,
   start |-> start, after |-> after, drained |-> drained]

\* the token the preceding call returned, if it was a successful Token call
After == IF last.op = "Token" /\ last.err.kind = "nil" THEN last.tok ELSE -1

\* the source has reported its end and no buffered byte is unread
Drained == src.hitEOF /\ tk.bufp >= tk.bufe

\* where Reset finds the caller: between a String or Number token and its
\* extractor, after a call that failed, or elsewhere
Moment ==
  IF After \in {TokNumber, TokString} THEN "mid"
  ELSE IF last.err.kind # "nil" THEN "failed"
  ELSE "idle"

Twin(t, s, tok, err, n, out) ==
  [t |-> t, s |-> s, tok |-> tok, err |-> err, n |-> n, out |-> out]

\* a scanner of size sz constructed on the reader rd
InitOn(rd, sz) ==
  /\ tk = NewWithSize(sz)
  /\ src = rd
  /\ size = sz
  /\ last = Call("New", -1, NoErr, 0, <<>>, 0, -1, FALSE)
  /\ drv = "Token"
  /\ toks = <<>>
  /\ vals = <<>>
  /\ twin = Twin(NewWithSize(sz), rd, -1, NoErr, 0, <<>>)
  /\ rebound = "no"
  /\ snk = Buffer
  /\ obeyed = TRUE

InitWith(I, S) ==
  \E data \in I, sz \in S, mode \in EofModes :
    \E cuts \in CutSets(data) : InitOn(NewReader(data, cuts, mode), sz)

Init == InitWith(Inputs, Sizes)

InitDriver == InitWith(DriverInputs, DriverSizes)

\* the driver loop of the README: Token, then the extractor Number and String
\* ask for, until a call fails
DrvNext(op, tok, err) ==
  IF drv # op THEN "off"
  ELSE IF err.kind # "nil" THEN "stopped"
  ELSE IF op = "Token" /\ tok = TokNumber THEN "ReadNumber"
  ELSE IF op = "Token" /\ tok = TokString THEN "ReadString"
  ELSE "Token"

\* what the twin returns: before any Reset the scanner is its own twin
Same(r, w) == IF rebound = "no" THEN r ELSE w

\* the caller has called Token, which returned r, and w on the twin
TookToken(r, w) ==
  /\ tk' = r.t
  /\ src' = r.s
  /\ last' = Call("Token", r.tok, r.err, 0, <<>>, Cursor(tk, src), After, Drained)
  /\ drv' = DrvNext("Token", r.tok, r.err)
  /\ toks' = IF drv' = "off" THEN <<>>
             ELSE IF r.err.kind = "nil" THEN Append(toks, r.tok) ELSE toks
  /\ vals' = IF drv' = "off" THEN <<>> ELSE vals
  /\ twin' = Twin(w.t, w.s, w.tok, w.err, 0, <<>>)
  /\ snk' = Buffer
  /\ UNCHANGED <<size, rebound, obeyed>>

CallToken ==
  TookToken(Token(tk, Called(src)),
            Same(Token(tk, Called(src)), Token(twin.t, Called(twin.s))))

\* the caller has called the extractor op, which returned r, and w on the twin
TookValue(op, r, w) ==
  /\ tk' = r.t
  /\ src' = r.s
  /\ last' = Call(op, -1, r.err, r.n, r.into.bytes, Cursor(tk, src), After,
                 Drained)
  /\ drv' = DrvNext(op, -1, r.err)
  /\ toks' = IF drv' = "off" THEN <<>> ELSE toks
  /\ vals' = IF drv' = "off" THEN <<>> ELSE Append(vals, r.into.bytes)
  /\ twin' = Twin(w.t, w.s, -1, w.err, w.n, w.into.bytes)
  /\ snk' = r.into
  /\ obeyed' = (obeyed /\ After = IF op = "ReadNumber" THEN TokNumber
                                  ELSE TokString)
  /\ UNCHANGED <<size, rebound>>

\* the caller calls ReadNumber with the sink into
ReadNumberInto(into) ==
  TookValue("ReadNumber", ReadNumber(tk, Called(src), into),
            Same(ReadNumber(tk, Called(src), into),
                 ReadNumber(twin.t, Called(twin.s), into)))

CallReadNumber == ReadNumberInto(Buffer)

\* the caller calls ReadString with the sink into
ReadStringInto(into) ==
  /\ tk.bufp <= size
  /\ TookValue("ReadString", ReadString(tk, Called(src), into),
               Same(ReadString(tk, Called(src), into),
                    ReadString(twin.t, Called(twin.s), into)))

CallReadString == ReadStringInto(Buffer)

CallReset ==
  \E data \in ResetInputs :
    LET s2 == NewReader(data, {}, FALSE)
        r == Reset(tk, s2)
    IN /\ tk' = r.t
       /\ src' = r.s
       /\ last' = Call("Reset", -1, NoErr, 0, <<>>, Cursor(tk, src), After, Drained)
       /\ drv' = "Token"
       /\ toks' = <<>>
       /\ vals' = <<>>
       /\ twin' = Twin(NewWithSize(size), s2, -1, NoErr, 0, <<>>)
       /\ rebound' = Moment
       /\ snk' = Buffer
       /\ UNCHANGED <<size, obeyed>>

Next == CallToken \/ CallReadNumber \/ CallReadString \/ CallReset

Spec == Init /\ [][Next]_vars

\* the driver loop of the README: Token, then the extractor the token asks for
DriveToken == drv = "Token" /\ CallToken

DriveReadNumber == drv = "ReadNumber" /\ CallReadNumber

DriveReadString == drv = "ReadString" /\ CallReadString

NextDriver == DriveToken \/ DriveReadNumber \/ DriveReadString

SpecDriver == InitDriver /\ [][NextDriver]_vars

\* the driver loop on a source that may deliver its last bytes together with
\* io.EOF or fail once, with or without bytes, and with sinks that may fail
FaultyAlphabet == {" ", "1", "\"", "n", ","}

FaultyInputs == Seqs(FaultyAlphabet, MaxLen)

\* sinks: one that takes everything, and those whose write number ok + 1 fails
\* after taking short bytes of it
Writers ==
  {Buffer} \cup {NewWriter(ok, short) : ok \in 0..MaxOk, short \in 0..1}

InitFaulty ==
  \E data \in FaultyInputs, sz \in Sizes, mode \in BOOLEAN,
     failAt \in -1..MaxLen, failWithData \in BOOLEAN :
    /\ failAt <= Len(data)
    /\ failWithData => failAt >= 1
    /\ InitOn(NewFailingReader(data, {}, mode, failAt, failWithData), sz)

FaultyReadNumber ==
  drv = "ReadNumber" /\ \E into \in Writers : ReadNumberInto(into)

FaultyReadString ==
  drv = "ReadString" /\ \E into \in Writers : ReadStringInto(into)

NextFaulty == DriveToken \/ FaultyReadNumber \/ FaultyReadString

SpecFaulty == InitFaulty /\ [][NextFaulty]_vars

TypeOK ==
  /\ Len(tk.buf) = size
  /\ drv \in {"Token", "ReadNumber", "ReadString", "stopped", "off"}

(***************************************************************************)
(* What the claims speak of.                                               *)
(***************************************************************************)
\* the bytes a number is made of
NumberBytes ==
  {"+", "-", ".", "0", "1", "2", "3", "4", "5", "6", "7", "8", "9", "E", "e"}

\* the longest run of number bytes in data that starts at offset start
NumRun(data, start) ==
  LET ks == {k \in 0..(Len(data) - start) :
               \A j \in 1..k : data[start + j] \in NumberBytes}
      n == CHOOSE k \in ks : \A m \in ks : m <= k
  IN SubSeq(data, start + 1, start + n)

\* the next byte the scanner takes is the byte of the stream at offset at:
\* the bytes before it are consumed and what is buffered starts with it
CursorAt(at) ==
  /\ Cursor(tk, src) = at
  /\ tk.bufp <= tk.bufe
  /\ tk.bufp < tk.bufe => tk.buf[tk.bufp + 1] = src.data[at + 1]

\* the read cursor is on the byte of the stream at offset at, which is buffered
\* unless the stream ends there
CursorOn(at) ==
  /\ Cursor(tk, src) = at
  /\ tk.bufp <= tk.bufe
  /\ at < Len(src.data) => tk.bufp < tk.bufe /\ tk.buf[tk.bufp + 1] = src.data[at + 1]

\* C1: ReadNumber called right after Token returned Number writes to the sink
\* exactly the longest run of number bytes that starts at the lead byte, returns
\* its length and no error, and leaves the read cursor on the byte after the run.
C1_ReadNumberCopiesRun ==
  (last.op = "ReadNumber" /\ last.after = TokNumber) =>
    LET run == NumRun(src.data, last.start)
    IN /\ last.out = run
       /\ last.n = Len(run)
       /\ last.err = NoErr
       /\ CursorOn(last.start + Len(run))

\* a number longer than the buffer, ended by a byte that is not a number byte
C1_Witness ==
  /\ last.op = "ReadNumber" /\ last.after = TokNumber
  /\ Len(last.out) > size
  /\ "." \in {last.out[i] : i \in 1..Len(last.out)}
  /\ Cursor(tk, src) < Len(src.data)

\* offsets after the opening quote at offset open of the quotes that are not
\* directly preceded by a backslash
Closers(data, open) ==
  {q \in (open + 1)..(Len(data) - 1) : data[q + 1] = "\"" /\ data[q] # "\\"}

\* C2: for a quoted string whose inner quotes are all directly preceded by a
\* backslash, its closing quote being the first quote that is not, ReadString
\* called right after Token returned String writes exactly the bytes between
\* the two quotes, returns their count and no error, and leaves the read cursor
\* one byte past the closing quote.
C2_ReadStringCopiesContent ==
  (last.op = "ReadString" /\ last.after = TokString
     /\ Closers(src.data, last.start) # {}) =>
    LET q == Min(Closers(src.data, last.start))
    IN /\ last.out = SubSeq(src.data, last.start + 2, q)
       /\ last.n = q - last.start - 1
       /\ last.err = NoErr
       /\ CursorAt(q + 1)

\* a string with a backslash-quote pair in it that does not fit the buffer
C2_Witness ==
  /\ last.op = "ReadString" /\ last.after = TokString
  /\ Closers(src.data, last.start) # {}
  /\ \E i \in 1..(Len(last.out) - 1) : last.out[i] = "\\" /\ last.out[i + 1] = "\""
  /\ Len(last.out) > size

\* the kinds of outcome that end the driver loop
Outcome(err) ==
  IF err.kind \in {"mismatch", "mismatchEOF"} THEN "mismatch" ELSE err.kind

\* what the driver loop observes on a scanner in state t reading s: the token
\* kinds, the payloads, and the kind of the error that ends it
RECURSIVE Drive(_, _, _, _, _)
Drive(t, s, d, tks, vs) ==
  IF d = "Token"
    THEN LET r == Token(t, s)
         IN IF r.err.kind # "nil"
              THEN [toks |-> tks, vals |-> vs, outcome |-> Outcome(r.err)]
              ELSE Drive(r.t, r.s,
                         IF r.tok = TokNumber THEN "ReadNumber"
                         ELSE IF r.tok = TokString THEN "ReadString"
                         ELSE "Token",
                         Append(tks, r.tok), vs)
    ELSE LET r == IF d = "ReadNumber" THEN ReadNumber(t, s, Buffer)
                  ELSE ReadString(t, s, Buffer)
         IN IF r.err.kind # "nil"
              THEN [toks |-> tks, vals |-> Append(vs, r.into.bytes),
                    outcome |-> Outcome(r.err)]
              ELSE Drive(r.t, r.s, "Token", tks, Append(vs, r.into.bytes))

Run(data, sz, cuts) ==
  Drive(NewWithSize(sz), NewReader(data, cuts, FALSE), "Token", <<>>, <<>>)

\* the stream {"k1":"val","k2":42}
K1Example ==
  <<"{", "\"", "k", "1", "\"", ":", "\"", "v", "a", "l", "\"", ",",
    "\"", "k", "2", "\"", ":", "4", "2", "}">>

\* C3: when the driver loop has ended, the token kinds, the payloads and the
\* kind of the final outcome are those a scanner of any other buffer size gets
\* on the same stream.
C3_SizeIndependent ==
  (drv = "stopped" /\ rebound = "no") =>
    \A sz \in DriverSizes :
      Run(src.data, sz, {}) =
        [toks |-> toks, vals |-> vals, outcome |-> Outcome(last.err)]

\* the example of the claim, on a buffer smaller than any of its payloads
C3_Witness ==
  /\ drv = "stopped" /\ rebound = "no"
  /\ src.data = K1Example
  /\ size = 1
  /\ toks = <<TokObjectOpen, TokString, TokObjectColon, TokString, TokComma,
              TokString, TokObjectColon, TokNumber, TokObjectClose>>
  /\ vals = <<(<<"k", "1">>), (<<"v", "a", "l">>), (<<"k", "2">>), (<<"4", "2">>)>>
  /\ last.err = EOF

\* the whitespace bytes
Whitespace == {"\t", "\n", "\r", " "}

\* the three words and their tokens
WordToks ==
  { [w |-> <<"n", "u", "l", "l">>, tok |-> TokNull],
    [w |-> <<"t", "r", "u", "e">>, tok |-> TokTrue],
    [w |-> <<"f", "a", "l", "s", "e">>, tok |-> TokFalse] }

WordsAt(data, i) ==
  {e \in WordToks : /\ i + Len(e.w) <= Len(data)
                    /\ SubSeq(data, i + 1, i + Len(e.w)) = e.w}

\* the words of a stream of words separated by whitespace, from offset i on,
\* each with its token and the offset one past it; a stream that is not of that
\* form ends in an entry with token -1.  sep: a word may start at i
RECURSIVE WordLex(_, _, _)
WordLex(data, i, sep) ==
  IF i >= Len(data) THEN <<>>
  ELSE IF data[i + 1] \in Whitespace THEN WordLex(data, i + 1, TRUE)
  ELSE IF sep /\ WordsAt(data, i) # {}
    THEN LET e == CHOOSE x \in WordsAt(data, i) : TRUE
         IN <<[tok |-> e.tok, end |-> i + Len(e.w)]>>
              \o WordLex(data, i + Len(e.w), FALSE)
    ELSE <<[tok |-> -1, end |-> -1]>>

IsWordStream(data) ==
  LET ws == WordLex(data, 0, TRUE)
  IN ws = <<>> \/ ws[Len(ws)].tok # -1

\* C4: on a stream of the words null, true, false separated by whitespace the
\* Token calls of the driver loop return the words' tokens in order without
\* error, each leaves the read cursor one byte past its word, and the call
\* after the last word returns end-of-stream with no byte left unconsumed.
C4_WordsTokenized ==
  (IsWordStream(src.data) /\ drv # "off" /\ rebound = "no" /\ last.op = "Token") =>
    LET ws == WordLex(src.data, 0, TRUE)
        k == Len(toks)
    IN /\ k <= Len(ws)
       /\ \A j \in 1..k : toks[j] = ws[j].tok
       /\ last.err.kind = "nil" =>
            /\ last.tok = ws[k].tok
            /\ CursorAt(ws[k].end)
       /\ last.err.kind # "nil" =>
            /\ last.err = EOF
            /\ k = Len(ws)
            /\ tk.bufp = tk.bufe
            /\ src.pos = Len(src.data)

\* two different words, neither fitting the buffer, and then end-of-stream
C4_Witness ==
  /\ IsWordStream(src.data) /\ drv = "stopped" /\ rebound = "no"
  /\ Len(toks) = 2 /\ toks[1] # toks[2]
  /\ size = 3
  /\ last.op = "Token" /\ last.err = EOF

\* C5: in every state, whatever calls were made, the cursors satisfy
\* 0 <= bufp <= bufe <= capacity, and the capacity is the one the scanner was
\* constructed with.
C5_CursorsInBounds ==
  /\ 0 <= tk.bufp
  /\ tk.bufp <= tk.bufe
  /\ tk.bufe <= Len(tk.buf)
  /\ Len(tk.buf) = size

\* C6: a call of Token, ReadNumber or ReadString made when the source has
\* reported its end and no buffered byte is unread yields end-of-stream.
C6_DrainedYieldsEOF ==
  (last.drained /\ last.op \in {"Token", "ReadNumber", "ReadString"}) =>
    last.err = EOF

\* the bytes the scanner has buffered and not yet taken
Unread(t) == IF t.bufp <= t.bufe THEN Slice(t.buf, t.bufp, t.bufe) ELSE <<>>

\* C7: Reset zeroes both cursors and keeps the capacity, and from then on the
\* scanner returns, writes and leaves buffered exactly what a freshly
\* constructed scanner of the same size does on the new source under the same
\* calls, whenever Reset was called.
C7_ResetLikeFresh ==
  rebound # "no" =>
    /\ Len(tk.buf) = size
    /\ last.op = "Reset" => tk.bufp = 0 /\ tk.bufe = 0
    /\ tk.bufp = twin.t.bufp
    /\ tk.bufe = twin.t.bufe
    /\ src = twin.s
    /\ Unread(tk) = Unread(twin.t)
    /\ last.op # "Reset" =>
         /\ last.tok = twin.tok
         /\ last.err = twin.err
         /\ last.n = twin.n
         /\ last.out = twin.out

\* Reset between a String or Number token and its extractor, then a call that
\* gave a token or a payload while a byte of the old source was in the buffer
C7_Witness ==
  /\ rebound = "mid"
  /\ last.op \in {"Token", "ReadString", "ReadNumber"}
  /\ last.err.kind = "nil"
  /\ \E i \in 1..size : tk.buf[i] # twin.t.buf[i]

\* the number of backslashes that directly precede offset q, after offset open
RECURSIVE Backslashes(_, _, _)
Backslashes(data, open, q) ==
  IF q - 1 > open /\ data[q] = "\\" THEN 1 + Backslashes(data, open, q - 1) ELSE 0

\* offsets after the opening quote at offset open of the quotes preceded by an
\* even number of backslashes: the first is the closing quote of the string
JsonClosers(data, open) ==
  {q \in (open + 1)..(Len(data) - 1) :
     data[q + 1] = "\"" /\ Backslashes(data, open, q) % 2 = 0}

\* C8: when the content of a string ends in an even number of backslashes
\* right before its closing quote, ReadString takes that quote for the closing
\* one: the sink gets the bytes between the quotes and the read cursor is left
\* one byte past that quote.
C8_EvenBackslashes ==
  (last.op = "ReadString" /\ last.after = TokString
     /\ JsonClosers(src.data, last.start) # {}) =>
    LET q == Min(JsonClosers(src.data, last.start))
    IN Backslashes(src.data, last.start, q) >= 2 =>
         /\ last.out = SubSeq(src.data, last.start + 2, q)
         /\ last.n = q - last.start - 1
         /\ last.err = NoErr
         /\ CursorAt(q + 1)

\* the punctuation bytes and their tokens
PunctTok(c) ==
  CASE c = "{" -> TokObjectOpen
    [] c = "}" -> TokObjectClose
    [] c = "[" -> TokArrayOpen
    [] c = "]" -> TokArrayClose
    [] c = ":" -> TokObjectColon
    [] c = "," -> TokComma

Punctuation == {"{", "}", "[", "]", ":", ","}

IsPunctStream(data) ==
  \A i \in 1..Len(data) : data[i] \in Punctuation \cup Whitespace

\* the tokens of the punctuation bytes of data, in order
RECURSIVE PunctToks(_)
PunctToks(data) ==
  IF data = <<>> THEN <<>>
  ELSE IF Head(data) \in Whitespace THEN PunctToks(Tail(data))
  ELSE <<PunctTok(Head(data))>> \o PunctToks(Tail(data))

\* C9: on a stream of punctuation bytes in any order, with any whitespace
\* between them, the Token calls of the driver loop return the bytes' tokens in
\* order with no error and then end-of-stream.
C9_PunctuationUnchecked ==
  (IsPunctStream(src.data) /\ drv # "off" /\ rebound = "no") =>
    LET exp == PunctToks(src.data)
    IN /\ Len(toks) <= Len(exp)
       /\ toks = SubSeq(exp, 1, Len(toks))
       /\ last.err.kind # "nil" => last.err = EOF /\ toks = exp

\* the stream [} has given ArrayOpen, ObjectClose and end-of-stream
C9_Witness ==
  /\ src.data = <<"[", "}">>
  /\ toks = <<TokArrayOpen, TokObjectClose>>
  /\ drv = "stopped"
  /\ last.err = EOF

IsWsStream(data) == \A i \in 1..Len(data) : data[i] \in Whitespace

\* C10: on a stream of whitespace only, of any length, the first Token call
\* returns end-of-stream and no token is produced.
C10_WhitespaceOnly ==
  (IsWsStream(src.data) /\ rebound = "no") =>
    /\ toks = <<>>
    /\ last.op = "Token" => last.err = EOF /\ last.tok = TokNull

\* a stream of tab, newline and carriage return read one byte at a time, on
\* which the first Token call has returned
C10_Witness ==
  /\ IsWsStream(src.data)
  /\ {src.data[i] : i \in 1..Len(src.data)} = {"\t", "\n", "\r"}
  /\ size = 1
  /\ last.op = "Token" /\ last.err = EOF

\* the offset of the first byte of data at or after start that is not
\* whitespace, -1 if there is none
FirstSig(data, start) ==
  LET sig == {i \in start..(Len(data) - 1) : data[i + 1] \notin Whitespace}
  IN IF sig = {} THEN -1 ELSE Min(sig)

\* the word that starts with the byte c
WordFor(c) == (CHOOSE e \in WordToks : e.w[1] = c).w

\* the number of bytes of the word w that data has from offset at on
Matched(data, at, w) ==
  LET ks == {k \in 0..Len(w) :
               \A j \in 1..k : at + j <= Len(data) /\ data[at + j] = w[j]}
  IN CHOOSE k \in ks : \A m \in ks : m <= k

\* the last call was a Token call that found the beginning of a word that the
\* stream does not go on with
BrokenWord ==
  /\ last.op = "Token"
  /\ FirstSig(src.data, last.start) # -1
  /\ src.data[FirstSig(src.data, last.start) + 1] \in {"t", "f", "n"}
  /\ LET at == FirstSig(src.data, last.start)
         w == WordFor(src.data[at + 1])
     IN Matched(src.data, at, w) < Len(w)

\* C11 as stated: a Token call that finds the beginning of true, false or null
\* not followed by the rest of the word fails with a mismatch error, never
\* end-of-stream, that reports the word, the byte found or end of input, and
\* the zero-based index in the word of the first byte that did not match.
C11_MismatchReportsIndex ==
  BrokenWord =>
    LET at == FirstSig(src.data, last.start)
        w == WordFor(src.data[at + 1])
        m == Matched(src.data, at, w)
    IN /\ last.err.kind \in {"mismatch", "mismatchEOF"}
       /\ last.err.w = w
       /\ last.err.idx = m
       /\ IF at + m < Len(src.data)
            THEN last.err.kind = "mismatch" /\ last.err.got = src.data[at + m + 1]
            ELSE last.err.kind = "mismatchEOF"

\* C11 amended: as C11, but the index is reported only with a byte that was
\* found; when the source ran out the error reports the word and end of input.
C11_MismatchReported ==
  BrokenWord =>
    LET at == FirstSig(src.data, last.start)
        w == WordFor(src.data[at + 1])
        m == Matched(src.data, at, w)
    IN /\ last.err.w = w
       /\ IF at + m < Len(src.data)
            THEN /\ last.err.kind = "mismatch"
                 /\ last.err.got = src.data[at + m + 1]
                 /\ last.err.idx = m
            ELSE last.err.kind = "mismatchEOF"

\* the word null broken at its third byte, read through a buffer of one byte
C11_Witness ==
  /\ BrokenWord
  /\ src.data = <<"n", "u", " ">>
  /\ size = 1
  /\ last.err = MkErr("mismatch", bnull, " ", 2, <<>>)

\* the bytes a token starts with
Leads ==
  {"{", "}", "[", "]", ":", ",", "\"", "t", "f", "n", "-",
   "0", "1", "2", "3", "4", "5", "6", "7", "8", "9"}

\* C12: a Token call returns the invalid-byte error exactly when the first byte
\* that is not whitespace starts no token, as the plus sign, the dot, E and e do
\* not; the read cursor is then on that byte, which is not consumed.
C12_InvalidLead ==
  last.op = "Token" =>
    LET at == FirstSig(src.data, last.start)
    IN /\ last.err.kind = "invalid" <=>
            (at # -1 /\ src.data[at + 1] \notin Leads)
       /\ last.err.kind = "invalid" => CursorOn(at)

\* a plus sign after a space and before a digit, in a buffer of one byte
C12_Witness ==
  /\ last.op = "Token"
  /\ src.data = <<" ", "+", "1">>
  /\ size = 1
  /\ last.err = MkErr("invalid", <<>>, "", -1, <<"+">>)
  /\ Cursor(tk, src) = 1

\* C13: when a write to the sink fails during ReadNumber or ReadString, the call
\* returns that error and the sum of the counts the sink has reported, makes no
\* write and no read after the failing write, and leaves the cursors within
\* 0 <= bufp <= bufe <= size.
C13_SinkErrorReturnedAtOnce ==
  snk.failed =>
    /\ last.op \in {"ReadNumber", "ReadString"}
    /\ last.err = WriteErr
    /\ last.n = Len(snk.bytes)
    /\ last.out = snk.bytes
    /\ snk.late = 0
    /\ src.reads = snk.clock
    /\ 0 <= tk.bufp /\ tk.bufp <= tk.bufe /\ tk.bufe <= size

\* a string read through a buffer of one byte into a sink whose second write
\* fails after taking one byte, after one refill
C13_Witness ==
  /\ snk.failed /\ snk.short = 1
  /\ last.op = "ReadString"
  /\ size = 1
  /\ last.n = 1
  /\ src.reads = 1
  /\ last.err = WriteErr

\* C14: when the stream ends before a quote that is not directly preceded by a
\* backslash, ReadString called right after Token returned String writes every
\* byte after the opening quote, returns their count and no error and leaves
\* the buffer empty, and the next Token call returns end-of-stream.
C14_UnterminatedString ==
  (last.op = "ReadString" /\ last.after = TokString
     /\ Closers(src.data, last.start) = {}) =>
    /\ last.out = SubSeq(src.data, last.start + 2, Len(src.data))
    /\ last.n = Len(src.data) - last.start - 1
    /\ last.err = NoErr
    /\ tk.bufp = tk.bufe
    /\ Token(tk, Called(src)).err = EOF

\* a string that ends in a backslash and a quote, through a buffer of one byte
C14_Witness ==
  /\ last.op = "ReadString" /\ last.after = TokString
  /\ src.data = <<"\"", "x", "\\", "\"">>
  /\ size = 1
  /\ last.out = <<"x", "\\", "\"">>
  /\ last.n = 3
  /\ last.err = NoErr

\* C15: when a read of the source fails with an error other than end-of-stream
\* during a call of Token, ReadNumber or ReadString, the call returns that
\* error, whether or not the read delivered bytes as well.
C15_ReadErrorReturned ==
  src.failed => last.err = ReadErr

\* C16: a Token call that returns String or Number leaves the read cursor on
\* the lead byte, which is buffered; one that returns a punctuation token
\* leaves it one byte past that byte; nothing after the lead byte is consumed.
C16_TokenCursor ==
  (last.op = "Token" /\ last.err = NoErr) =>
    LET at == FirstSig(src.data, last.start)
    IN /\ at # -1
       /\ last.tok \in {TokString, TokNumber} =>
            /\ Cursor(tk, src) = at
            /\ tk.bufp < tk.bufe
            /\ tk.buf[tk.bufp + 1] = src.data[at + 1]
            /\ toklookup(src.data[at + 1]) = last.tok
       /\ last.tok \in {PunctTok(c) : c \in Punctuation} =>
            /\ CursorAt(at + 1)
            /\ toklookup(src.data[at + 1]) = last.tok

\* a string after two bytes of whitespace, through a buffer of one byte
C16_Witness ==
  /\ last.op = "Token" /\ last.err = NoErr
  /\ size = 1
  /\ src.data = <<" ", " ", "\"">>
  /\ last.tok = TokString
  /\ Cursor(tk, src) = 2

\* the scanner t with every byte of its buffer outside [bufp, bufe) wiped
Scrub(t) ==
  [t EXCEPT !.buf = [i \in 1..Len(t.buf) |->
                       IF t.bufp < i /\ i <= t.bufe THEN t.buf[i] ELSE NUL]]

\* the calls that returned a and b returned the same, wrote the same and left
\* the same cursors, the same unread bytes and the same source
AlikeToken(a, b) ==
  /\ a.tok = b.tok /\ a.err = b.err /\ a.s = b.s
  /\ a.t.bufp = b.t.bufp /\ a.t.bufe = b.t.bufe
  /\ Unread(a.t) = Unread(b.t)

AlikeValue(a, b) ==
  /\ a.n = b.n /\ a.into = b.into /\ a.err = b.err /\ a.s = b.s
  /\ a.t.bufp = b.t.bufp /\ a.t.bufe = b.t.bufe
  /\ Unread(a.t) = Unread(b.t)

\* some byte of the buffer outside [bufp, bufe) is left from an earlier fill
Stale == Scrub(tk) # tk

\* C17: as long as ReadNumber and ReadString are called only right after Token
\* returned Number or String, what a call compares, classifies, reports or
\* writes does not depend on any byte of the buffer outside [bufp, bufe): the
\* call does the same on a buffer with those bytes wiped.
C17_NoStaleByte ==
  obeyed =>
    /\ AlikeToken(Token(tk, Called(src)), Token(Scrub(tk), Called(src)))
    /\ After = TokNumber =>
         AlikeValue(ReadNumber(tk, Called(src), Buffer),
                    ReadNumber(Scrub(tk), Called(src), Buffer))
    /\ After = TokString =>
         AlikeValue(ReadString(tk, Called(src), Buffer),
                    ReadString(Scrub(tk), Called(src), Buffer))

\* after Reset the word null is matched through a buffer of three bytes, the
\* last two of which are then left from the fill before
C17_Witness ==
  /\ obeyed /\ Stale
  /\ rebound # "no"
  /\ src.data = <<"n", "u", "l", "l">>
  /\ size = 3
  /\ last.op = "Token" /\ last.tok = TokNull /\ last.err = NoErr
  /\ tk.bufp = 1 /\ tk.bufe = 1
  /\ tk.buf = <<"l", "u", "l">>

\* C18: after a Token call that returned String or Number, or the invalid-byte
\* error, another Token call returns the same and leaves the cursors, the
\* buffer and the source as they are, so that any number of Token calls stays
\* on that byte.
C18_TokenIdempotent ==
  (/\ last.op = "Token"
   /\ \/ last.err = NoErr /\ last.tok \in {TokString, TokNumber}
      \/ last.err.kind = "invalid") =>
    Token(tk, Called(src)) =
      [t |-> tk, s |-> Called(src), tok |-> last.tok, err |-> last.err]

\* Token has returned Number a second time for a digit after a space
C18_Witness ==
  /\ last.op = "Token" /\ last.err = NoErr
  /\ last.tok = TokNumber /\ last.after = TokNumber
  /\ src.data = <<" ", "1">>
  /\ size = 1
  /\ Cursor(tk, src) = 1

\* a successful Token call that is not followed by an extractor, and a
\* successful extractor call after its Token call, have moved the read cursor
\* forward in the stream
Progress ==
  /\ (last.op = "Token" /\ last.err = NoErr
        /\ last.tok \notin {TokString, TokNumber}) =>
       Cursor(tk, src) > last.start
  /\ (last.op \in {"ReadNumber", "ReadString"} /\ last.err = NoErr) =>
       Cursor(tk, src) > last.start

\* twice the number of bytes of the stream not yet consumed, and one more
\* when the next call is Token: what the driver loop has left to do
Variant ==
  2 * (Len(src.data) - Cursor(tk, src)) + (IF drv = "Token" THEN 1 ELSE 0)

\* C19: every call of the driver loop returns; every successful Token call,
\* together with the extractor it asks for, consumes at least one byte of the
\* stream; and every call either ends the loop or leaves it with less to do,
\* so that the loop ends after at most 2 * Len(data) + 1 calls.
C19_DriverEnds ==
  [][/\ Progress'
     /\ drv' \in {"Token", "ReadNumber", "ReadString", "stopped"}
     /\ drv' = "ReadString" => tk'.bufp < tk'.bufe
     /\ drv' = "stopped" => last'.err # NoErr
     /\ drv' # "stopped" => Variant' < Variant /\ Variant' >= 0]_vars

\* the loop has ended with end-of-stream after two numbers longer than the
\* buffer
C19_Witness ==
  /\ drv = "stopped"
  /\ last.err = EOF
  /\ src.data = <<" ", "-", "1", "2", "2", " ", " ", "1", "1", "E", "+", "4">>
  /\ size = 1
  /\ toks = <<TokNumber, TokNumber>>
  /\ Len(vals) = 2

\* C20: the driver loop on a source that delivers its last bytes together with
\* end-of-stream gets the tokens, the payloads and the final outcome it gets
\* on a source that signals end-of-stream by a read of its own.
C20_EndSignalIrrelevant ==
  (/\ drv = "stopped"
   /\ src.eofWithData /\ src.failAt = -1
   /\ last.err # WriteErr) =>
    Run(src.data, size, {}) =
      [toks |-> toks, vals |-> vals, outcome |-> Outcome(last.err)]

====
